---------------------------- MODULE Spec2Model ----------------------------
(***************************************************************************)
(* Model of scripts/cad_to_gdb_wrapper.py: the CAD -> File Geodatabase     *)
(* wrapper.  Strings are sequences of one-character strings, so that the   *)
(* sanitizer, the timestamp formatting and the path building are computed  *)
(* character by character as the Python code computes them.                *)
(***************************************************************************)
EXTENDS Naturals, Sequences, FiniteSets, TLC

VARIABLES
    fn_pc, fn_in, fn_out,       \* harness of the pure functions: position, input, result
    now,                        \* the wall clock, in seconds
    run,                        \* number of the current invocation of main
    pc,                         \* position of the current invocation in main
    params,                     \* the script tool parameters 0..5 as read by main
    project_arg,                \* the text given as parameter 3 (Project Name)
    project_name, cad_files, sr, out_gdb, staging_dataset_name, staging_path,
                                \* main's local variables
    msgs,                       \* arcpy.AddMessage / AddWarning / AddError output of this run
    calls,                      \* calls made to the geoprocessing engine and the map host
    outcome,                    \* how the invocation ended
    derived,                    \* derived output parameters 6 and 7
    stores,                     \* the geodatabases on disk: path -> content
    env,                        \* what this run found in its environment
    prev                        \* summary of the previous invocation

fnvars == <<fn_pc, fn_in, fn_out>>
locals == <<project_name, cad_files, sr, out_gdb, staging_dataset_name, staging_path>>
runvars == <<now, run, pc, params, project_arg, project_name, cad_files, sr, out_gdb,
             staging_dataset_name, staging_path, msgs, calls, outcome, derived,
             stores, env, prev>>
vars == <<fn_pc, fn_in, fn_out, now, run, pc, params, project_arg, project_name,
          cad_files, sr, out_gdb, staging_dataset_name, staging_path, msgs, calls,
          outcome, derived, stores, env, prev>>

-----------------------------------------------------------------------------
(* Characters *)

UpperCase == <<"A","B","C","D","E","F","G","H","I","J","K","L","M",
               "N","O","P","Q","R","S","T","U","V","W","X","Y","Z">>
LowerCase == <<"a","b","c","d","e","f","g","h","i","j","k","l","m",
               "n","o","p","q","r","s","t","u","v","w","x","y","z">>
DigitChars == <<"0","1","2","3","4","5","6","7","8","9">>

Range(f) == {f[i] : i \in DOMAIN f}

\* str.isdigit / str.isalnum on one character
isdigit(c) == c \in Range(DigitChars)
isalnum(c) == c \in Range(UpperCase) \cup Range(LowerCase) \cup Range(DigitChars)

-----------------------------------------------------------------------------
(* Python string primitives used by the script *)

\* characters removed by s.strip() and by s.strip("_")
Whitespace == {" ", "\t", "\n"}
Underscore == {"_"}

RECURSIVE LStrip(_, _)
LStrip(s, drop) ==
    IF s # <<>> /\ Head(s) \in drop THEN LStrip(Tail(s), drop) ELSE s

RECURSIVE RStrip(_, _)
RStrip(s, drop) ==
    IF s # <<>> /\ s[Len(s)] \in drop THEN RStrip(SubSeq(s, 1, Len(s) - 1), drop) ELSE s

\* s.strip(chars)
Strip(s, drop) == RStrip(LStrip(s, drop), drop)

\* "__" in s
HasDoubleUnderscore(s) ==
    \E i \in 1..(Len(s) - 1) : s[i] = "_" /\ s[i + 1] = "_"

\* s.replace("__", "_"): one left-to-right pass over non-overlapping matches
RECURSIVE ReplaceDoubleUnderscore(_)
ReplaceDoubleUnderscore(s) ==
    IF Len(s) < 2 THEN s
    ELSE IF s[1] = "_" /\ s[2] = "_"
         THEN <<"_">> \o ReplaceDoubleUnderscore(SubSeq(s, 3, Len(s)))
         ELSE <<s[1]>> \o ReplaceDoubleUnderscore(Tail(s))

\* while "__" in cleaned: cleaned = cleaned.replace("__", "_")
RECURSIVE CollapseUnderscores(_)
CollapseUnderscores(s) ==
    IF HasDoubleUnderscore(s) THEN CollapseUnderscores(ReplaceDoubleUnderscore(s)) ELSE s

\* s[:n]
Prefix(s, n) == IF Len(s) <= n THEN s ELSE SubSeq(s, 1, n)

-----------------------------------------------------------------------------
(* _clean_name *)

MaxNameLen == 64

DefaultName == <<"C","A","D","_","P","r","o","j","e","c","t">>

_clean_name(raw) ==
    LET s == Strip(raw, Whitespace) IN
    IF s = <<>> THEN DefaultName
    ELSE LET cleaned  == [i \in 1..Len(s) |-> IF isalnum(s[i]) THEN s[i] ELSE "_"]
             prefixed == IF isdigit(cleaned[1]) THEN <<"X","_">> \o cleaned ELSE cleaned
             squeezed == CollapseUnderscores(prefixed)
         IN  Prefix(Strip(squeezed, Underscore), MaxNameLen)

-----------------------------------------------------------------------------
(* os.path helpers.  Sep stands for os.sep. *)

Sep == "/"

\* os.path.join(a, b) for a relative b
Join(a, b) ==
    IF a = <<>> THEN b
    ELSE IF a[Len(a)] = Sep THEN a \o b
    ELSE a \o <<Sep>> \o b

\* os.path.normpath(p), for paths whose only redundancy is trailing separators
Normpath(p) ==
    LET q == RStrip(p, {Sep}) IN IF q = <<>> /\ p # <<>> THEN <<Sep>> ELSE q

\* os.path.basename(p)
RECURSIVE Basename(_)
Basename(p) ==
    IF p = <<>> THEN <<>>
    ELSE IF p[Len(p)] = Sep THEN <<>>
    ELSE Basename(SubSeq(p, 1, Len(p) - 1)) \o <<p[Len(p)]>>

-----------------------------------------------------------------------------
(* datetime.now().strftime("%Y%m%d_%H%M%S").  The clock is the number of    *)
(* seconds since 2025-12-15 00:00:00 local time and stays within December   *)
(* 2025, so the year and month digits are fixed and the day, hour, minute   *)
(* and second digits are computed.                                          *)

SecondsPerDay == 24 * 3600

Digit2(n) == <<DigitChars[(n \div 10) + 1], DigitChars[(n % 10) + 1]>>

Stamp(t) ==
    <<"2","0","2","5","1","2">> \o Digit2(15 + (t \div SecondsPerDay)) \o <<"_">>
        \o Digit2((t \div 3600) % 24) \o Digit2((t \div 60) % 60) \o Digit2(t % 60)

\* _unique_gdb_path, with the clock value it reads as the third argument
_unique_gdb_path(output_folder, base_name, t) ==
    LET gdb_name == base_name \o <<"_","C","o","n","v","e","r","t","e","d","_">>
                        \o Stamp(t) \o <<".","g","d","b">>
    IN  Join(output_folder, gdb_name)

\* main, lines 259-261: the staging dataset name for the clock value read there
StagingDatasetName(project, t) ==
    _clean_name(<<"C","A","D","_","R","A","W","_">> \o project \o <<"_">> \o Stamp(t))

-----------------------------------------------------------------------------
(* _find_cad_files.  A folder is a set of entries [dir, name, is_dir]: dir  *)
(* is the entry's directory relative to the folder (<<>> for the folder     *)
(* itself).  os.listdir names every entry of the folder itself, files and   *)
(* subdirectories alike; os.walk hands out the non-directory entries of     *)
(* every directory of the tree.                                             *)

\* str.lower on one character and on a string
LowerChar(c) ==
    IF c \in Range(UpperCase)
    THEN LowerCase[CHOOSE i \in DOMAIN UpperCase : UpperCase[i] = c]
    ELSE c
Lower(s) == [i \in 1..Len(s) |-> LowerChar(s[i])]

EndsWith(s, suffix) ==
    /\ Len(s) >= Len(suffix)
    /\ SubSeq(s, Len(s) - Len(suffix) + 1, Len(s)) = suffix

exts == {<<".","d","w","g">>, <<".","d","g","n">>, <<".","d","x","f">>}

HasCadExt(f) == \E e \in exts : EndsWith(Lower(f), e)

\* code-point order of the characters that occur in paths
CodePointOrder ==
    <<" ", "-", ".", Sep>> \o DigitChars \o UpperCase \o <<"_">> \o LowerCase

Ord(c) == CHOOSE i \in DOMAIN CodePointOrder : CodePointOrder[i] = c

RECURSIVE StrLess(_, _)
StrLess(a, b) ==
    IF b = <<>> THEN FALSE
    ELSE IF a = <<>> THEN TRUE
    ELSE IF a[1] = b[1] THEN StrLess(Tail(a), Tail(b))
    ELSE Ord(a[1]) < Ord(b[1])

\* sorted(S) for a set of strings
RECURSIVE Sorted(_)
Sorted(S) ==
    IF S = {} THEN <<>>
    ELSE LET least == CHOOSE x \in S : \A y \in S \ {x} : StrLess(x, y)
         IN  <<least>> \o Sorted(S \ {least})

_find_cad_files(folder, entries, recursive) ==
    IF recursive
    THEN Sorted({Join(Join(folder, e.dir), e.name) :
                    e \in {x \in entries : ~x.is_dir /\ HasCadExt(x.name)}})
    ELSE Sorted({Join(folder, e.name) :
                    e \in {x \in entries : x.dir = <<>> /\ HasCadExt(x.name)}})

-----------------------------------------------------------------------------
(* Inputs of the sanitizer: every string over a small alphabet up to        *)
(* MaxRawLen characters, optionally followed by a run of letters that       *)
(* brings the length up to and beyond the 64-character cut.                 *)

MaxRawLen == 3

RawAlphabet == {"a", "7", "_", "-", " "}

RECURSIVE SeqsUpTo(_, _)
SeqsUpTo(A, n) ==
    IF n = 0 THEN {<<>>}
    ELSE LET shorter == SeqsUpTo(A, n - 1)
         IN  shorter \cup {Append(s, c) : s \in {t \in shorter : Len(t) = n - 1}, c \in A}

RawCores == SeqsUpTo(RawAlphabet, MaxRawLen)

Repeat(c, n) == [i \in 1..n |-> c]

PadLens == {0, MaxNameLen - 26, MaxNameLen - 2, MaxNameLen}

RawNames == {core \o Repeat("b", k) \o tail :
                core \in RawCores, k \in PadLens, tail \in {<<>>, <<"_", "c">>}}

-----------------------------------------------------------------------------
(* Values of the run model *)

\* a local variable main has not assigned yet (strings, and the file list)
Unset == <<"<unset>">>
UnsetList == <<Unset>>

\* the paths given as parameters 0, 1 and 2
CadFolder == <<"i","n",Sep,"R","t"," ","6",Sep>>
OutputFolder == <<"o","u","t">>
PrjFile == <<"n","m",".","p","r","j">>

\* what an input folder may hold
EntryUniverse ==
    { [dir |-> <<>>,     name |-> <<"a",".","D","W","G">>, is_dir |-> FALSE],
      [dir |-> <<>>,     name |-> <<"n",".","t","x","t">>, is_dir |-> FALSE],
      [dir |-> <<"s">>,  name |-> <<"B",".","d","x","f">>, is_dir |-> FALSE],
      [dir |-> <<>>,     name |-> <<"Z",".","d","g","n">>, is_dir |-> TRUE] }

\* line 140: the extent threshold; line 279: reference_scale
ExtentLimit == 5000000
ReferenceScale == 1000

\* extents arcpy.Describe may report for the staged dataset
Extents ==
    { [XMin |-> 0, XMax |-> ExtentLimit, YMin |-> 0, YMax |-> ExtentLimit],
      [XMin |-> ExtentLimit + 1, XMax |-> 0, YMin |-> 0, YMax |-> 1],
      [XMin |-> 0, XMax |-> 1, YMin |-> 0, YMax |-> ExtentLimit + 1] }

\* the clock at the first invocation: 19:00:10 on the first day
Epoch == (19 * 3600) + 10

\* largest number of seconds that pass before a reading of the clock
MaxTick == 1

\* number of invocations of main in a behaviour
MaxRuns == 2

\* texts given as the Project Name parameter
LongName == <<"P">> \o Repeat("b", MaxNameLen - 24)
ProjectArgs == {<<>>, <<"R","t","-","9">>, <<"-","7","a">>, LongName}

NoParams ==
    [cad_folder |-> Unset, output_folder |-> Unset, prj_file |-> Unset,
     project_name |-> Unset, auto_add |-> FALSE, search_subfolders |-> FALSE]

NoEnv ==
    [cad_folder |-> "unread", has_cad_file |-> "unread", prj |-> "unread",
     template |-> "unread", host |-> "unread", extent |-> "unread", fault |-> "none",
     diagnostic |-> <<>>]

NoDerived == [gdb |-> Unset, dataset |-> Unset]

NoStores == [p \in {} |-> {}]

NoPrev ==
    [outcome |-> "none", project |-> Unset, cad_folder |-> Unset, output_folder |-> Unset,
     out_gdb |-> Unset, staging_dataset_name |-> Unset, has_store |-> FALSE,
     store |-> [made_by |-> 0, datasets |-> {}]]

-----------------------------------------------------------------------------
(* Messages: arcpy.AddMessage, arcpy.AddWarning, arcpy.AddError *)

Info(text, arg) == [sev |-> "message", text |-> text, arg |-> arg]
Warn(text, arg) == [sev |-> "warning", text |-> text, arg |-> arg]
Err(text, arg)  == [sev |-> "error",   text |-> text, arg |-> arg]

Rule == Info("--------------------------------------------------", <<>>)
Banner(title) == <<Rule, Info(title, <<>>), Rule>>

ErrInvalidInput == Err("Input CAD Folder is invalid or missing.", <<>>)
ErrNoCadFiles(recursive) ==
    Err("No CAD files (.dwg/.dgn/.dxf) found in the input folder.",
        IF recursive THEN <<>> ELSE <<"Tip: enable 'Search subfolders'">>)
ErrNoOutput == Err("Output Folder is required.", <<>>)
ErrNoTemplate == Err("template.gdb not found next to script", <<>>)
WarnNoPrj ==
    Warn("No projection file provided. CAD data will be imported WITHOUT a defined coordinate system.", <<>>)
WarnExtent ==
    Warn("Output extent is extremely large.", <<>>)
WarnNoActiveMap == Warn("No active map found.", <<>>)
InfoMapSkipped(e) == Info("Auto-add to map skipped", e)
WarnReminder == Warn("Reminder: CAD coordinates are NOT transformed.", <<>>)

HasMsg(m) == \E i \in 1..Len(msgs) : msgs[i] = m
CountMsg(m) == Cardinality({i \in 1..Len(msgs) : msgs[i] = m})
HasSeverity(sev) == \E i \in 1..Len(msgs) : msgs[i].sev = sev

-----------------------------------------------------------------------------
(* The helpers main calls *)

\* ";".join(cad_files)
RECURSIVE JoinWith(_, _)
JoinWith(sep, list) ==
    IF list = <<>> THEN <<>>
    ELSE IF Len(list) = 1 THEN list[1]
    ELSE list[1] \o <<sep>> \o JoinWith(sep, Tail(list))

\* _copy_template_gdb when copytree succeeds: what is on disk afterwards.
\* shutil.rmtree removes an existing target; copytree then puts a copy of the
\* template there, made by run r.
_copy_template_gdb(disk, target_gdb, r) ==
    [p \in (DOMAIN disk) \cup {target_gdb} |->
        IF p = target_gdb THEN [made_by |-> r, datasets |-> {}] ELSE disk[p]]

\* _copy_template_gdb when copytree raises: rmtree has already run
RemoveTree(disk, target_gdb) ==
    [p \in (DOMAIN disk) \ {target_gdb} |-> disk[p]]

\* arcpy.management.CreateFeatureDataset(out_gdb, name[, sr]) with
\* arcpy.env.overwriteOutput = True: a dataset of that name is replaced
CreateFeatureDataset(disk, gdb, name, spatial_ref) ==
    [disk EXCEPT ![gdb].datasets =
        {d \in @ : d.name # name}
            \cup {[name |-> name, sr |-> spatial_ref, populated |-> FALSE]}]

\* arcpy.conversion.CADToGeodatabase completing: the dataset holds the features
CADToGeodatabase(disk, gdb, name) ==
    [disk EXCEPT ![gdb].datasets =
        {IF d.name = name THEN [d EXCEPT !.populated = TRUE] ELSE d : d \in @}]

Abs(a, b) == IF a >= b THEN a - b ELSE b - a

\* _warn_if_extent_suspicious: the messages it emits.  described is FALSE when
\* arcpy.Describe or the extent raises, which is swallowed.
_warn_if_extent_suspicious(described, ext) ==
    IF ~described THEN <<>>
    ELSE LET width  == Abs(ext.XMax, ext.XMin)
             height == Abs(ext.YMax, ext.YMin)
         IN  IF width > ExtentLimit \/ height > ExtentLimit THEN <<WarnExtent>> ELSE <<>>

\* _add_dataset_to_map: the messages it emits and whether an exception leaves
\* it.  host is "ok", "no_map" (activeMap is None) or "raises" (ArcGISProject
\* or addDataFromPath raises an Exception).
_add_dataset_to_map(host, dataset_path) ==
    IF host = "no_map" THEN [msgs |-> <<WarnNoActiveMap>>, raised |-> FALSE]
    ELSE IF host = "raises"
    THEN [msgs |-> <<InfoMapSkipped(<<"host fault">>)>>, raised |-> FALSE]
    ELSE [msgs |-> <<Info("Added output dataset to the active map.", <<>>)>>,
          raised |-> FALSE]

\* a variant of ResolveSpatialReference that tests only whether a path was given
ResolveSpatialReferenceUnchecked(prj_file, is_file) ==
    IF prj_file = <<>>
    THEN [sr |-> "None",
          msgs |-> <<WarnNoPrj, Info("No spatial reference will be defined on import.", <<>>)>>]
    ELSE [sr |-> "SR", msgs |-> Banner("CAD Coordinate System Definition")]

\* main, lines 200-215: the spatial reference and the messages about it
ResolveSpatialReference(prj_file, is_file) ==
    LET missing == prj_file = <<>> \/ ~is_file
        spatial == IF missing THEN "None" ELSE "SR"
    IN  [sr |-> spatial,
         msgs |-> (IF missing THEN <<WarnNoPrj>> ELSE <<>>)
                  \o (IF spatial # "None"
                      THEN Banner("CAD Coordinate System Definition")
                           \o <<Info("Name", <<>>), Info("Factory Code", <<>>),
                                Info("Linear Unit", <<>>), Info("Datum", <<>>)>>
                      ELSE <<Info("No spatial reference will be defined on import.", <<>>)>>)]

-----------------------------------------------------------------------------
(* main: how a step leaves the function *)

\* a variant of EarlyReturn that leaves the try block without leaving main
EarlyReturnFallsThrough(error) ==
    /\ msgs' = Append(msgs, error)
    /\ pc' = "epilogue"
    /\ outcome' = outcome

\* arcpy.AddError(...); return
EarlyReturn(error) ==
    /\ msgs' = Append(msgs, error)
    /\ pc' = "done"
    /\ outcome' = "returned"

\* a variant of ExceptHandler that reports the exception and does not re-raise
ExceptHandlerSwallow(emitted, ex) ==
    /\ msgs' = msgs \o emitted \o
                 (IF ex.type = "ExecuteError"
                  THEN <<[sev |-> "error", text |-> "ArcGIS geoprocessing error occurred.", arg |-> <<>>],
                         [sev |-> "error", text |-> "arcpy.GetMessages(2)", arg |-> ex.text]>>
                  ELSE <<[sev |-> "error", text |-> "Unexpected error occurred.", arg |-> <<>>],
                         [sev |-> "error", text |-> "str(ex)", arg |-> ex.text]>>)
    /\ pc' = "epilogue"
    /\ outcome' = outcome

\* the except clauses of main, lines 296-303, for an exception raised inside
\* the try block: two AddError calls, then raise.  ex.text stands for
\* arcpy.GetMessages(2) of the failed tool, or for str(ex).
ExceptHandler(emitted, ex) ==
    /\ msgs' = msgs \o emitted \o
                 (IF ex.type = "ExecuteError"
                  THEN <<Err("ArcGIS geoprocessing error occurred.", <<>>),
                         Err("arcpy.GetMessages(2)", ex.text)>>
                  ELSE <<Err("Unexpected error occurred.", <<>>),
                         Err("str(ex)", ex.text)>>)
    /\ pc' = "done"
    /\ outcome' = "raised"

\* the environment's record of the call that raised and of what it said
Faulted(call, ex) == env' = [env EXCEPT !.fault = call, !.diagnostic = ex.text]

OSErrorOf(what) == [type |-> "OSError", text |-> <<what>>]
ExecuteErrorOf(what) == [type |-> "ExecuteError", text |-> <<what>>]
RuntimeErrorOf(what) == [type |-> "RuntimeError", text |-> <<what>>]

-----------------------------------------------------------------------------
(* main, one action per step *)

\* lines 156-161: the parameters are read
GetParameters ==
    /\ pc = "get_parameters"
    /\ \E cf \in {<<>>, CadFolder}, of \in {<<>>, OutputFolder}, pf \in {<<>>, PrjFile},
          aa \in BOOLEAN, ss \in BOOLEAN :
          params' = [cad_folder |-> cf, output_folder |-> of, prj_file |-> pf,
                     project_name |-> project_arg, auto_add |-> aa,
                     search_subfolders |-> ss]
    /\ pc' = "validate_input"
    /\ UNCHANGED <<fnvars, now, run, project_arg, locals, msgs, calls, outcome,
                   derived, stores, env, prev>>

\* lines 177-179
ValidateInput ==
    /\ pc = "validate_input"
    /\ \E is_dir \in BOOLEAN :
          IF params.cad_folder = <<>> \/ ~is_dir
          THEN /\ EarlyReturn(ErrInvalidInput)
               /\ env' = [env EXCEPT !.cad_folder = "invalid"]
          ELSE /\ pc' = "resolve_project"
               /\ env' = [env EXCEPT !.cad_folder = "dir"]
               /\ UNCHANGED <<msgs, outcome>>
    /\ UNCHANGED <<fnvars, now, run, params, project_arg, locals, calls, derived,
                   stores, prev>>

\* lines 182-184
ResolveProject ==
    /\ pc = "resolve_project"
    /\ project_name' =
          _clean_name(IF params.project_name = <<>>
                      THEN Basename(Normpath(params.cad_folder))
                      ELSE params.project_name)
    /\ pc' = "discover"
    /\ UNCHANGED <<fnvars, now, run, params, project_arg, cad_files, sr, out_gdb,
                   staging_dataset_name, staging_path, msgs, calls, outcome, derived,
                   stores, env, prev>>

\* lines 186-193
Discover ==
    /\ pc = "discover"
    /\ \E entries \in SUBSET EntryUniverse :
          LET found == _find_cad_files(params.cad_folder, entries, params.search_subfolders)
              files == \E e \in entries : ~e.is_dir /\ HasCadExt(e.name)
              dirs  == \E e \in entries : e.is_dir /\ HasCadExt(e.name)
          IN  /\ cad_files' = found
              /\ env' = [env EXCEPT !.has_cad_file =
                            IF files THEN "file"
                            ELSE IF dirs THEN "directory_only" ELSE "none"]
              /\ IF found = <<>>
                 THEN EarlyReturn(ErrNoCadFiles(params.search_subfolders))
                 ELSE /\ msgs' = Append(msgs, Info("Found CAD files",
                                           <<Len(found), params.search_subfolders>>))
                      /\ pc' = "check_output"
                      /\ UNCHANGED outcome
    /\ UNCHANGED <<fnvars, now, run, params, project_arg, project_name, sr, out_gdb,
                   staging_dataset_name, staging_path, calls, derived, stores, prev>>

\* lines 195-198; os.makedirs may raise OSError
CheckOutput ==
    /\ pc = "check_output"
    /\ IF params.output_folder = <<>>
       THEN /\ EarlyReturn(ErrNoOutput)
            /\ UNCHANGED env
       ELSE \E usable \in BOOLEAN :
              IF usable
              THEN /\ pc' = "resolve_sr"
                   /\ UNCHANGED <<msgs, outcome, env>>
              ELSE /\ ExceptHandler(<<>>, OSErrorOf("makedirs"))
                   /\ Faulted("makedirs", OSErrorOf("makedirs"))
    /\ UNCHANGED <<fnvars, now, run, params, project_arg, locals, calls, derived,
                   stores, prev>>

\* lines 200-215
ResolveSR ==
    /\ pc = "resolve_sr"
    /\ \E is_file \in BOOLEAN :
          LET r == ResolveSpatialReference(params.prj_file, is_file)
          IN  /\ params.prj_file = <<>> => is_file = FALSE
              /\ sr' = r.sr
              /\ msgs' = msgs \o r.msgs
              /\ env' = [env EXCEPT !.prj = IF params.prj_file = <<>> THEN "not_supplied"
                                            ELSE IF is_file THEN "file" ELSE "missing"]
    /\ pc' = "check_template"
    /\ UNCHANGED <<fnvars, now, run, params, project_arg, project_name, cad_files,
                   out_gdb, staging_dataset_name, staging_path, calls, outcome,
                   derived, stores, prev>>

\* lines 217-231
CheckTemplate ==
    /\ pc = "check_template"
    /\ \E is_dir \in BOOLEAN :
          /\ env' = [env EXCEPT !.template = IF is_dir THEN "dir" ELSE "missing"]
          /\ IF ~is_dir
             THEN EarlyReturn(ErrNoTemplate)
             ELSE IF cad_files = <<>>
             THEN EarlyReturn(ErrNoCadFiles(TRUE))
             ELSE /\ pc' = "allocate_store"
                  /\ UNCHANGED <<msgs, outcome>>
    /\ UNCHANGED <<fnvars, now, run, params, project_arg, locals, calls, derived,
                   stores, prev>>

\* lines 233-244; _unique_gdb_path reads the clock
AllocateStore ==
    /\ pc = "allocate_store"
    /\ \E d \in 0..MaxTick : now' = now + d
    /\ out_gdb' = _unique_gdb_path(params.output_folder, project_name, now')
    /\ msgs' = msgs \o Banner("Starting CAD -> Geodatabase conversion")
                    \o Banner("STEP 1: Validating inputs")
                    \o <<Info("Found CAD files", <<Len(cad_files)>>),
                         Info("Project Name", project_name)>>
    /\ pc' = "copy_template"
    /\ UNCHANGED <<fnvars, run, params, project_arg, project_name, cad_files, sr,
                   staging_dataset_name, staging_path, calls, outcome, derived,
                   stores, env, prev>>

\* lines 247-252; shutil.copytree may raise OSError
CopyTemplate ==
    /\ pc = "copy_template"
    /\ LET emitted == Banner("STEP 2: Creating output Geodatabase from template")
                        \o <<Info("Creating output GDB from template", out_gdb)>>
       IN  \E copytree_raises \in BOOLEAN :
              IF copytree_raises
              THEN /\ stores' = RemoveTree(stores, out_gdb)
                   /\ ExceptHandler(emitted, OSErrorOf("copytree"))
                   /\ Faulted("copytree", OSErrorOf("copytree"))
              ELSE /\ stores' = _copy_template_gdb(stores, out_gdb, run)
                   /\ msgs' = msgs \o emitted
                   /\ pc' = "create_dataset"
                   /\ UNCHANGED <<outcome, env>>
    /\ UNCHANGED <<fnvars, now, run, params, project_arg, locals, calls, derived, prev>>

\* lines 254-267; the clock is read again; CreateFeatureDataset may raise
CreateDataset ==
    /\ pc = "create_dataset"
    /\ \E d \in 0..MaxTick : now' = now + d
    /\ staging_dataset_name' = StagingDatasetName(project_name, now')
    /\ LET emitted == Banner("STEP 3: Creating staging Feature Dataset")
                        \o <<Info("Creating staging Feature Dataset", staging_dataset_name')>>
       IN  /\ calls' = Append(calls, [fn |-> "CreateFeatureDataset", gdb |-> out_gdb,
                                      name |-> staging_dataset_name', sr |-> sr])
           /\ \E created \in BOOLEAN :
                 IF created
                 THEN /\ stores' = CreateFeatureDataset(stores, out_gdb,
                                                        staging_dataset_name', sr)
                      /\ msgs' = msgs \o emitted
                      /\ pc' = "convert"
                      /\ UNCHANGED <<outcome, env>>
                 ELSE /\ ExceptHandler(emitted, ExecuteErrorOf("CreateFeatureDataset failed"))
                      /\ Faulted("CreateFeatureDataset",
                                 ExecuteErrorOf("CreateFeatureDataset failed"))
                      /\ UNCHANGED stores
    /\ UNCHANGED <<fnvars, run, params, project_arg, project_name, cad_files, sr,
                   out_gdb, staging_path, derived, prev>>

\* lines 269-281; the engine may raise ExecuteError or another exception
Convert ==
    /\ pc = "convert"
    /\ LET emitted == Banner("STEP 4: CAD to Geodatabase Conversion")
                        \o <<Info("Running CADToGeodatabase...", <<>>)>>
       IN  /\ calls' = Append(calls, [fn |-> "CADToGeodatabase",
                                      input_cad_datasets |-> JoinWith(";", cad_files),
                                      gdb |-> out_gdb, name |-> staging_dataset_name,
                                      reference_scale |-> ReferenceScale, sr |-> sr])
           /\ \E result \in {"ok", "ExecuteError", "RuntimeError"} :
                 IF result = "ok"
                 THEN /\ stores' = CADToGeodatabase(stores, out_gdb, staging_dataset_name)
                      /\ msgs' = msgs \o emitted
                      /\ pc' = "post_convert"
                      /\ UNCHANGED <<outcome, env>>
                 ELSE LET ex == IF result = "ExecuteError"
                                THEN ExecuteErrorOf("ERROR: CAD conversion failed")
                                ELSE RuntimeErrorOf("engine fault")
                      IN  /\ ExceptHandler(emitted, ex)
                          /\ Faulted("CADToGeodatabase", ex)
                      /\ UNCHANGED stores
    /\ UNCHANGED <<fnvars, now, run, params, project_arg, locals, derived, prev>>

\* lines 283-287
PostConvert ==
    /\ pc = "post_convert"
    /\ staging_path' = Join(out_gdb, staging_dataset_name)
    /\ \E described \in BOOLEAN, ext \in Extents :
          /\ ~described => ext = CHOOSE x \in Extents : TRUE
          /\ msgs' = msgs \o _warn_if_extent_suspicious(described, ext)
                          \o <<Info("CAD To Geodatabase completed successfully.", <<>>),
                               Info("Output GDB", out_gdb),
                               Info("Staging Dataset", staging_path')>>
          /\ env' = [env EXCEPT !.extent = IF described THEN "described" ELSE "raised"]
    /\ calls' = Append(calls, [fn |-> "Describe", path |-> staging_path'])
    /\ pc' = "register"
    /\ UNCHANGED <<fnvars, now, run, params, project_arg, project_name, cad_files, sr,
                   out_gdb, staging_dataset_name, outcome, derived, stores, prev>>

\* lines 289-294
Register ==
    /\ pc = "register"
    /\ IF params.auto_add
       THEN \E host \in {"ok", "no_map", "raises"} :
              LET r == _add_dataset_to_map(host, staging_path)
                  emitted == Banner("STEP 5: Map addition (optional)") \o r.msgs
              IN  /\ calls' = Append(calls, [fn |-> "_add_dataset_to_map",
                                             path |-> staging_path])
                  /\ IF r.raised
                     THEN /\ ExceptHandler(emitted, RuntimeErrorOf("host fault"))
                          /\ env' = [env EXCEPT !.host = host, !.fault = "_add_dataset_to_map",
                                                !.diagnostic = <<"host fault">>]
                     ELSE /\ env' = [env EXCEPT !.host = host] /\ msgs' = msgs \o emitted
                          /\ pc' = "epilogue"
                          /\ UNCHANGED outcome
       ELSE /\ msgs' = msgs \o Banner("STEP 5: Map addition (optional)")
            /\ pc' = "epilogue"
            /\ UNCHANGED <<calls, env, outcome>>
    /\ UNCHANGED <<fnvars, now, run, params, project_arg, locals, derived, stores, prev>>

\* a variant of EpilogueMessages without the reminder
EpilogueMessagesWithoutReminder == <<>>

\* lines 305-309: what main emits after the try statement
EpilogueMessages == <<WarnReminder>>

\* lines 305-314: the reminder and the derived outputs.  Reading a local that
\* was never assigned raises UnboundLocalError.
Epilogue ==
    /\ pc = "epilogue"
    /\ msgs' = msgs \o EpilogueMessages
    /\ IF out_gdb = Unset \/ staging_path = Unset
       THEN /\ outcome' = "UnboundLocalError"
            /\ derived' = [derived EXCEPT !.gdb = IF out_gdb = Unset THEN @ ELSE out_gdb]
       ELSE /\ outcome' = "success"
            /\ derived' = [gdb |-> out_gdb, dataset |-> staging_path]
    /\ pc' = "done"
    /\ UNCHANGED <<fnvars, now, run, params, project_arg, locals, calls, stores, env, prev>>

\* the tool is invoked again, with the same Project Name
NextRun ==
    /\ pc = "done"
    /\ run < MaxRuns
    /\ prev' = [outcome |-> outcome, project |-> project_name,
                cad_folder |-> params.cad_folder, output_folder |-> params.output_folder,
                out_gdb |-> out_gdb, staging_dataset_name |-> staging_dataset_name,
                has_store |-> out_gdb \in DOMAIN stores,
                store |-> IF out_gdb \in DOMAIN stores THEN stores[out_gdb]
                          ELSE NoPrev.store]
    /\ run' = run + 1
    /\ pc' = "get_parameters"
    /\ params' = NoParams
    /\ project_name' = Unset
    /\ cad_files' = UnsetList
    /\ sr' = "<unset>"
    /\ out_gdb' = Unset
    /\ staging_dataset_name' = Unset
    /\ staging_path' = Unset
    /\ msgs' = <<>>
    /\ calls' = <<>>
    /\ outcome' = "running"
    /\ derived' = NoDerived
    /\ env' = NoEnv
    /\ UNCHANGED <<fnvars, now, project_arg, stores>>

-----------------------------------------------------------------------------
(* Initial states *)

FnIdle ==
    /\ fn_pc = "idle"
    /\ fn_in = <<>>
    /\ fn_out = <<>>

RunFresh ==
    /\ now = Epoch
    /\ run = 1
    /\ params = NoParams
    /\ project_name = Unset
    /\ cad_files = UnsetList
    /\ sr = "<unset>"
    /\ out_gdb = Unset
    /\ staging_dataset_name = Unset
    /\ staging_path = Unset
    /\ msgs = <<>>
    /\ calls = <<>>
    /\ outcome = "running"
    /\ derived = NoDerived
    /\ stores = NoStores
    /\ env = NoEnv
    /\ prev = NoPrev

\* no invocation of main: the state of the pure-function specifications
RunIdle ==
    /\ RunFresh
    /\ pc = "idle"
    /\ project_arg = <<>>

Init ==
    /\ FnIdle
    /\ RunFresh
    /\ pc = "get_parameters"
    /\ project_arg \in ProjectArgs

\* one invocation of main
Invocation ==
    \/ GetParameters
    \/ ValidateInput
    \/ ResolveProject
    \/ Discover
    \/ CheckOutput
    \/ ResolveSR
    \/ CheckTemplate
    \/ AllocateStore
    \/ CopyTemplate
    \/ CreateDataset
    \/ Convert
    \/ PostConvert
    \/ Register
    \/ Epilogue

Next == Invocation

\* a single invocation of the tool
Spec == Init /\ [][Next]_vars

NextRerun ==
    \/ Invocation
    \/ NextRun

\* the tool invoked MaxRuns times in a row, on the same disk
SpecRerun == Init /\ [][NextRerun]_vars

-----------------------------------------------------------------------------
(* Specification of the sanitizer alone: draw an input, apply _clean_name. *)

InitClean ==
    /\ RunIdle
    /\ fn_pc = "ready"
    /\ fn_in \in RawNames
    /\ fn_out = <<>>

ApplyClean ==
    /\ fn_pc = "ready"
    /\ fn_pc' = "done"
    /\ fn_out' = _clean_name(fn_in)
    /\ UNCHANGED <<fn_in, runvars>>

NextClean == ApplyClean

SpecClean == InitClean /\ [][NextClean]_vars

-----------------------------------------------------------------------------
(* Specification of the allocator alone: a project identifier as            *)
(* _clean_name produces it, two readings of the clock, and the store path   *)
(* and staging dataset name computed for each.                              *)

\* a name of 1..64 letters, digits and underscores, no "__", no leading digit
ValidName(s) ==
    /\ Len(s) >= 1
    /\ Len(s) <= MaxNameLen
    /\ \A i \in 1..Len(s) : isalnum(s[i]) \/ s[i] = "_"
    /\ ~HasDoubleUnderscore(s)
    /\ ~isdigit(s[1])

ProjectIdentifiers == {n \in {_clean_name(r) : r \in RawNames} : ValidName(n)}

\* clock readings: the same minute, the next minute, the next hour, the next day
ClockReadings == {Epoch + d : d \in {0, 1, 50, 3600, SecondsPerDay}}

InitAlloc ==
    /\ RunIdle
    /\ fn_pc = "ready"
    /\ \E p \in ProjectIdentifiers, t1 \in ClockReadings, t2 \in ClockReadings :
          /\ t1 # t2
          /\ fn_in = [project |-> p, t1 |-> t1, t2 |-> t2]
    /\ fn_out = <<>>

ApplyAlloc ==
    /\ fn_pc = "ready"
    /\ fn_pc' = "done"
    /\ fn_out' = [gdb1 |-> _unique_gdb_path(OutputFolder, fn_in.project, fn_in.t1),
                  gdb2 |-> _unique_gdb_path(OutputFolder, fn_in.project, fn_in.t2),
                  name1 |-> StagingDatasetName(fn_in.project, fn_in.t1),
                  name2 |-> StagingDatasetName(fn_in.project, fn_in.t2)]
    /\ UNCHANGED <<fn_in, runvars>>

NextAlloc == ApplyAlloc

SpecAlloc == InitAlloc /\ [][NextAlloc]_vars

-----------------------------------------------------------------------------
(* Claims *)

\* C1: every result of _clean_name is 1..64 characters of letters, digits
\* and underscore, has no two consecutive underscores and does not start
\* with a digit.
C1_CleanNameAlwaysValid == fn_pc = "done" => ValidName(fn_out)

\* this run has the project identifier and the directories of the previous one
SameRequestAsPrevious ==
    /\ prev.project = project_name
    /\ prev.cad_folder = params.cad_folder
    /\ prev.output_folder = params.output_folder

\* C2: a successful run followed by a second successful run with the same
\* project identifier and directories ends with a different store path and a
\* different staging dataset name, and the first run's store is still on disk
\* exactly as the first run left it.
C2_RerunLeavesFirstRunAlone ==
    (run > 1 /\ prev.outcome = "success" /\ pc = "done" /\ outcome = "success"
        /\ SameRequestAsPrevious)
    => /\ out_gdb # prev.out_gdb
       /\ staging_dataset_name # prev.staging_dataset_name
       /\ prev.out_gdb \in DOMAIN stores
       /\ stores[prev.out_gdb] = prev.store

\* C3: for a valid project identifier and two different clock readings, the
\* two store paths differ and the two staging dataset names differ.
C3_DistinctStampsDistinctNames ==
    fn_pc = "done" => (fn_out.gdb1 # fn_out.gdb2 /\ fn_out.name1 # fn_out.name2)

\* C4: when the allocated store path already exists as the template is about
\* to be copied, the step ends the run with an error and leaves the disk as
\* it was.
C4_CollisionFailsLoudly ==
    [][(pc = "copy_template" /\ out_gdb \in DOMAIN stores)
        => (outcome' = "raised" /\ stores' = stores)]_vars

\* the stores this run put on disk, and the calls it made to fn
MadeByThisRun == {p \in DOMAIN stores : stores[p].made_by = run}
CallsTo(fn) == {i \in 1..Len(calls) : calls[i].fn = fn}

\* the run has ended on the no-CAD-files error and has created nothing
EndsWithoutStore ==
    /\ MadeByThisRun = {}
    /\ CallsTo("CreateFeatureDataset") = {}
    /\ CallsTo("CADToGeodatabase") = {}
    /\ pc = "done"
    /\ outcome = "returned"
    /\ msgs # <<>>
    /\ msgs[Len(msgs)] = ErrNoCadFiles(params.search_subfolders)

\* C5: in a run whose input folder holds no file with a CAD extension, no
\* store and no staging dataset is ever created, the engine is never invoked,
\* and the run ends by returning after the no-CAD-files error.
C5_NoCadFilesNoStore ==
    env.has_cad_file \in {"none", "directory_only"} => EndsWithoutStore

\* what the code does for C5: the run ends that way when no entry of the
\* folder, file or subdirectory, has a name with a CAD extension
NoCadNamedEntryNoStore == env.has_cad_file = "none" => EndsWithoutStore

\* the reminder of lines 305-309 is among the messages of the run
ReminderEmitted ==
    \E i \in 1..Len(msgs) :
        /\ msgs[i].sev = "warning"
        /\ msgs[i].text = "Reminder: CAD coordinates are NOT transformed."

\* C6 as stated: every finished run has emitted the reminder that coordinates
\* are not transformed.
C6_ReminderInEveryRun == pc = "done" => ReminderEmitted

\* C6 as amended: a finished run has emitted the reminder exactly when it ran
\* to the end of main (success); a run that returned early or raised has not.
C6_ReminderExactlyOnSuccess ==
    pc = "done" => (ReminderEmitted <=> outcome = "success")

C6_Witness == pc = "done" /\ outcome = "success" /\ ReminderEmitted

\* the messages of _add_dataset_to_map about a failed registration
RegistrationTexts == {"No active map found.", "Auto-add to map skipped"}
RegistrationReported(sev) ==
    \E i \in 1..Len(msgs) : msgs[i].sev = sev /\ msgs[i].text \in RegistrationTexts
\* the registration step left the run on its way to success
RunUnharmed ==
    /\ ~HasSeverity("error")
    /\ outcome \in {"running", "success"}
    /\ pc = "done" => (outcome = "success" /\ derived = [gdb |-> out_gdb, dataset |-> staging_path])
    /\ pc \in {"epilogue", "done"}

\* C7: when the map host has no active map or raises, a warning reports it,
\* no error is emitted, and the run ends in success with both derived
\* outputs set.
C7_RegistrationFailureIsWarning ==
    env.host \in {"no_map", "raises"} => (RegistrationReported("warning") /\ RunUnharmed)

\* what the code does for C7: no active map is reported as a warning; an
\* exception of the host is caught and reported with AddMessage, carrying the
\* exception text, and no warning is emitted for it; in both cases no error
\* is emitted and the run ends in success with both derived outputs set.
RegistrationFailureIsIsolated ==
    /\ env.host = "no_map"
         => (HasMsg(WarnNoActiveMap) /\ ~RegistrationReported("message") /\ RunUnharmed)
    /\ env.host = "raises"
         => (HasMsg(InfoMapSkipped(<<"host fault">>)) /\ ~RegistrationReported("warning")
             /\ RunUnharmed)

\* no spatial reference is held by main, passed to a tool or put on a dataset
NoSpatialReferenceUsed ==
    /\ sr = "None"
    /\ \A i \in CallsTo("CreateFeatureDataset") \cup CallsTo("CADToGeodatabase") :
          calls[i].sr = "None"
    /\ \A p \in MadeByThisRun : \A d \in stores[p].datasets : d.sr = "None"

\* C8: a run that gets as far as resolving the spatial reference and finds
\* the .prj not supplied or missing emits the missing-definition warning
\* exactly once, creates the staging dataset and invokes the engine with no
\* spatial reference, and, with the template present and no call raising,
\* ends in success with the dataset in the store.
C8_MissingPrjStillSucceeds ==
    env.prj \in {"not_supplied", "missing"}
    => /\ CountMsg(WarnNoPrj) = 1
       /\ NoSpatialReferenceUsed
       /\ (pc = "done" /\ env.template = "dir" /\ env.fault = "none")
            => /\ outcome = "success"
               /\ Cardinality(CallsTo("CADToGeodatabase")) = 1
               /\ out_gdb \in DOMAIN stores
               /\ stores[out_gdb].datasets =
                     {[name |-> staging_dataset_name, sr |-> "None", populated |-> TRUE]}

C8_Witness ==
    /\ pc = "done" /\ env.prj = "missing" /\ outcome = "success"
    /\ CountMsg(WarnNoPrj) = 1

\* C9: when CADToGeodatabase raises, the run is over at once: the error is
\* reported with the engine's own text and re-raised, the engine was invoked
\* exactly once and was the last call made, and neither the extent check, the
\* map registration nor the derived outputs happened.
C9_EngineFailureIsFatal ==
    env.fault = "CADToGeodatabase"
    => /\ pc = "done"
       /\ outcome = "raised"
       /\ \E i \in 1..Len(msgs) : msgs[i].sev = "error" /\ msgs[i].arg = env.diagnostic
       /\ msgs[Len(msgs)].sev = "error"
       /\ Cardinality(CallsTo("CADToGeodatabase")) = 1
       /\ calls[Len(calls)].fn = "CADToGeodatabase"
       /\ CallsTo("Describe") = {}
       /\ CallsTo("_add_dataset_to_map") = {}
       /\ staging_path = Unset
       /\ derived = NoDerived

C9_Witness ==
    /\ env.fault = "CADToGeodatabase" /\ pc = "done"
    /\ env.diagnostic = <<"ERROR: CAD conversion failed">>

\* both locals are assigned, the store and its populated dataset are on disk
ConversionCompleted ==
    /\ out_gdb # Unset
    /\ staging_path = Join(out_gdb, staging_dataset_name)
    /\ out_gdb \in DOMAIN stores
    /\ \E d \in stores[out_gdb].datasets : d.name = staging_dataset_name /\ d.populated
    /\ CallsTo("CADToGeodatabase") # {}

\* C10: the code after the try statement is reached only with out_gdb and
\* staging_path assigned, the store provisioned, the staging dataset created
\* and the conversion completed; it never reads an unassigned local, and a
\* run that returned early or raised has set no derived output.
C10_DerivedOutputsOnlyAfterConversion ==
    /\ outcome # "UnboundLocalError"
    /\ pc = "epilogue" => ConversionCompleted
    /\ derived # NoDerived
         => (ConversionCompleted /\ derived = [gdb |-> out_gdb, dataset |-> staging_path])
    /\ outcome \in {"returned", "raised"} => (pc = "done" /\ derived = NoDerived)

C10_Witness ==
    pc = "done" /\ outcome = "success" /\ derived = [gdb |-> out_gdb, dataset |-> staging_path]

=============================================================================
